---------------------------- MODULE Spec2Model ----------------------------
(***************************************************************************)
(* Model of "Fuzzy Search/main.py": the fuzzy phrase matcher and the       *)
(* highlighter of an e-mail body.                                          *)
(*                                                                         *)
(* A Python str is a sequence of one-character strings.  A similarity      *)
(* (a float in the code) is an exact fraction <<numerator, denominator>>.  *)
(* A data frame is the sequence of its rows.                               *)
(***************************************************************************)
EXTENDS Integers, Sequences, FiniteSets, TLC

VARIABLES
    body_HTML,          \* main: the body of the e-mail (never assigned again)
    updated_body_HTML,  \* main: the working copy that receives the highlights
    origin,             \* history: for each character of updated_body_HTML,
                        \* "body" (still the e-mail's own text), "markup"
                        \* (of an inserted span) or "wrapped" (the word
                        \* written between the inserted tags)
    json_data_issuer,   \* [restricted_words, similarity_ratio]
    json_data_ticker,   \* [restricted_words, similarity_ratio]
    char_list,          \* distinct characters of the restricted lists
    cleaned_content,    \* main: clean_input's result
    pc,                 \* position in main / fuzzy_search
    restricted_type,    \* fuzzy_search: "issuer" or "ticker"
    content_list,       \* fuzzy_search: tokens
    restricted_words,   \* fuzzy_search: the list, sorted by word count
    similarity,         \* fuzzy_search: threshold
    max_word_len,       \* fuzzy_search: current window length
    matches_df,         \* fuzzy_search: matches collected so far
    matches_df_issuer,  \* main
    matches_df_ticker,  \* main
    matches_table,      \* main: matches_df (issuer rows, then ticker rows)
    idx,                \* main: index of the next row of matches_table (from 1)
    result_table,       \* main: the rows of the report table
    subs_made           \* main: substitutions made by the last re.subn

vars == <<body_HTML, updated_body_HTML, origin, json_data_issuer,
          json_data_ticker, char_list, cleaned_content, pc, restricted_type,
          content_list, restricted_words, similarity, max_word_len,
          matches_df, matches_df_issuer, matches_df_ticker, matches_table,
          idx, result_table, subs_made>>

---------------------------------------------------------------------------
(* Characters and Python's str predicates                                  *)

Letters == {"a","b","c","d","e","f","g","h","i","j","k","l","m","n","o","p",
            "q","r","s","t","u","v","w","x","y","z",
            "A","B","C","D","E","F","G","H","I","J","K","L","M","N","O","P",
            "Q","R","S","T","U","V","W","X","Y","Z"}
Digits == {"0","1","2","3","4","5","6","7","8","9"}
Whitespace == {" ", "\n", "\r", "\t"}

\* \w of a str pattern
WordChar == Letters \cup Digits \cup {"_"}

Range(s) == {s[i] : i \in 1..Len(s)}

Max(a, b) == IF a > b THEN a ELSE b

isspace(s) == Len(s) > 0 /\ \A i \in 1..Len(s) : s[i] \in Whitespace
isalnum(s) == Len(s) > 0 /\ \A i \in 1..Len(s) : s[i] \in Letters \cup Digits
isdigit(s) == Len(s) > 0 /\ \A i \in 1..Len(s) : s[i] \in Digits

lower(s) ==
    LET up == <<"A","B","C","D","E","F","G","H","I","J","K","L","M","N","O",
                "P","Q","R","S","T","U","V","W","X","Y","Z">>
        lo == <<"a","b","c","d","e","f","g","h","i","j","k","l","m","n","o",
                "p","q","r","s","t","u","v","w","x","y","z">>
    IN [i \in 1..Len(s) |->
           IF \E k \in 1..26 : up[k] = s[i]
           THEN lo[CHOOSE k \in 1..26 : up[k] = s[i]]
           ELSE s[i]]

\* str.strip()
strip(s) ==
    IF \A i \in 1..Len(s) : s[i] \in Whitespace THEN <<>>
    ELSE LET a == CHOOSE i \in 1..Len(s) :
                     s[i] \notin Whitespace /\ \A k \in 1..(i-1) : s[k] \in Whitespace
             b == CHOOSE i \in 1..Len(s) :
                     s[i] \notin Whitespace /\ \A k \in (i+1)..Len(s) : s[k] \in Whitespace
         IN SubSeq(s, a, b)

\* str.split(): the maximal runs of non-whitespace characters, in order
RECURSIVE SplitFrom(_, _, _)
SplitFrom(s, i, cur) ==
    IF i > Len(s) THEN (IF cur = <<>> THEN <<>> ELSE <<cur>>)
    ELSE IF s[i] \in Whitespace
         THEN (IF cur = <<>> THEN <<>> ELSE <<cur>>) \o SplitFrom(s, i + 1, <<>>)
         ELSE SplitFrom(s, i + 1, Append(cur, s[i]))

split(s) == SplitFrom(s, 1, <<>>)

\* sep.join(list)
RECURSIVE join(_, _)
join(sep, list) ==
    IF list = <<>> THEN <<>>
    ELSE IF Len(list) = 1 THEN list[1]
    ELSE list[1] \o sep \o join(sep, Tail(list))

\* ''.join(list)
RECURSIVE Concat(_)
Concat(list) == IF list = <<>> THEN <<>> ELSE Head(list) \o Concat(Tail(list))

\* len(x.split())
WordCount(phrase) == Len(split(phrase))

---------------------------------------------------------------------------
(* clean_input                                                             *)

\* stopwords.txt is a data file read at run time
stop_words == { <<"o","f">>, <<"t","h","e">> }

\* re.sub('[\n\r\\]', ' ', output)
ReplaceLineFeeds(s) ==
    [i \in 1..Len(s) |-> IF s[i] \in {"\n", "\r", "\\"} THEN " " ELSE s[i]]

\* last index e >= i - 1 such that s[i..e] lies in class
RECURSIVE RunEnd(_, _, _)
RunEnd(s, i, class) ==
    IF i <= Len(s) /\ s[i] \in class THEN RunEnd(s, i + 1, class) ELSE i - 1

\* re.sub(r'[\w\.-]+@[\w\.-]+', '', output)
EmailChar == WordChar \cup {".", "-"}

RECURSIVE RemoveEmailsFrom(_, _)
RemoveEmailsFrom(s, i) ==
    IF i > Len(s) THEN <<>>
    ELSE IF s[i] \notin EmailChar THEN <<s[i]>> \o RemoveEmailsFrom(s, i + 1)
    ELSE LET e == RunEnd(s, i, EmailChar)
         IN IF e + 2 <= Len(s) /\ s[e + 1] = "@" /\ s[e + 2] \in EmailChar
            THEN RemoveEmailsFrom(s, RunEnd(s, e + 2, EmailChar) + 1)
            ELSE SubSeq(s, i, e) \o RemoveEmailsFrom(s, e + 1)

RemoveEmails(s) == RemoveEmailsFrom(s, 1)

\* re.sub(html_tag_re, ' ', body_HTML) with html_tag_re <(.|\n)*?>: each
\* stretch from a "<" to the nearest ">" after it becomes one space
RECURSIVE StripTagsFrom(_, _)
StripTagsFrom(s, i) ==
    IF i > Len(s) THEN <<>>
    ELSE IF s[i] = "<" /\ \E k \in (i + 1)..Len(s) : s[k] = ">"
         THEN <<" ">> \o StripTagsFrom(s,
                  1 + CHOOSE k \in (i + 1)..Len(s) :
                        s[k] = ">" /\ \A m \in (i + 1)..(k - 1) : s[m] # ">")
         ELSE <<s[i]>> \o StripTagsFrom(s, i + 1)

\* line 238; html.unescape changes nothing in the bodies of this model,
\* which hold no "&"
body_string_content(body) == StripTagsFrom(body, 1)

\* The URL pattern is read from url_regex.txt, a data file; the bodies of
\* this model hold no URL, so that substitution removes nothing from them.
clean_input(input_string, chars) ==
    LET NotStop(x) == lower(x) \notin stop_words
        InList(c) == c \in chars
        o1 == join(<<" ">>, SelectSeq(split(input_string), NotStop))
        o2 == ReplaceLineFeeds(o1)
        o3 == RemoveEmails(o2)
    IN SelectSeq(o3, InList)

\* list(set(combined_string))
get_list_of_chars(issuer, ticker) ==
    Range(Concat(issuer.restricted_words)) \cup Range(Concat(ticker.restricted_words))

---------------------------------------------------------------------------
(* get_ngrams                                                              *)

RECURSIVE NgramAt(_, _, _, _)
NgramAt(list_str, i, j, ngrams_value) ==
    IF j < ngrams_value
    THEN <<" ">> \o list_str[i + j] \o NgramAt(list_str, i, j + 1, ngrams_value)
    ELSE <<>>

get_ngrams(list_str, ngrams_value) ==
    [i \in 1..Max(0, Len(list_str) - ngrams_value + 1) |->
        strip(NgramAt(list_str, i, 0, ngrams_value))]

---------------------------------------------------------------------------
(* Levenshtein.ratio                                                       *)

Gt(a, b) == a[1] * b[2] > b[1] * a[2]
Eq(a, b) == a[1] * b[2] = b[1] * a[2]

RECURSIVE LcsLen(_, _)
LcsLen(s, t) ==
    IF s = <<>> \/ t = <<>> THEN 0
    ELSE IF Head(s) = Head(t) THEN 1 + LcsLen(Tail(s), Tail(t))
    ELSE Max(LcsLen(Tail(s), t), LcsLen(s, Tail(t)))

\* ratio(s1, s2, score_cutoff): 1 - indel_distance / (len1 + len2), the
\* distance being len1 + len2 - 2 * lcs; 0.0 when that is below the cutoff
ratio(s1, s2, score_cutoff) ==
    LET r == IF Len(s1) + Len(s2) = 0 THEN <<1, 1>>
             ELSE <<2 * LcsLen(s1, s2), Len(s1) + Len(s2)>>
    IN IF Gt(score_cutoff, r) THEN <<0, 1>> ELSE r

---------------------------------------------------------------------------
(* get_matches                                                             *)

\* strip_pattern [^\w\d\s\.]
StripChar(c) == c \notin WordChar \cup Whitespace \cup {"."}

\* re.sub(pattern, '', input) with pattern [^a-zA-Z0-9]
AlnumOnly(input) ==
    LET IsAlnum(c) == c \in Letters \cup Digits
    IN SelectSeq(input, IsAlnum)

\* variant: r >= similarity
AcceptsAtLeast(r, threshold) == ~Gt(threshold, r)

\* if r > similarity

Accepts(r, threshold) == Gt(r, threshold)

RECURSIVE RowsFor(_, _, _, _, _)
RowsFor(input, restricted_list, k, threshold, type) ==
    IF k > Len(restricted_list) THEN <<>>
    ELSE LET res == restricted_list[k]
             r == IF type = "ticker"
                  THEN ratio(AlnumOnly(input), res, threshold)
                  ELSE ratio(input, res, threshold)
         IN (IF Accepts(r, threshold)
             THEN << [matched_word |-> strip(input), restricted_word |-> res,
                      similarity |-> r] >>
             ELSE <<>>)
            \o RowsFor(input, restricted_list, k + 1, threshold, type)

RECURSIVE MatchesFrom(_, _, _, _, _)
MatchesFrom(ngrams, i, restricted_list, threshold, type) ==
    IF i > Len(ngrams) THEN <<>>
    ELSE LET input0 == ngrams[i]
             input == IF StripChar(input0[Len(input0)])
                      THEN SubSeq(input0, 1, Len(input0) - 1)
                      ELSE input0
         IN (IF Len(input0) = 0 \/ isspace(input0) THEN <<>>
             ELSE RowsFor(input, restricted_list, 1, threshold, type))
            \o MatchesFrom(ngrams, i + 1, restricted_list, threshold, type)

get_matches(ngrams, restricted_list, threshold, type) ==
    MatchesFrom(ngrams, 1, restricted_list, threshold, type)

---------------------------------------------------------------------------
(* fuzzy_search                                                            *)

\* restricted_words.sort(key=lambda x: len(x.split()), reverse=True):
\* list.sort is stable, so phrases of one word count keep their order
RECURSIVE SortFrom(_, _)
SortFrom(words, n) ==
    LET HasN(x) == WordCount(x) = n
    IN IF n < 0 THEN <<>>
       ELSE SelectSeq(words, HasN) \o SortFrom(words, n - 1)

MaxCount(words) ==
    LET counts == {WordCount(words[i]) : i \in 1..Len(words)}
    IN CHOOSE m \in counts : \A c \in counts : c <= m

SortByWordCount(words) ==
    IF words = <<>> THEN <<>> ELSE SortFrom(words, MaxCount(words))

\* variant: an empty list gives window length 0 instead of the error
first_word_len_unchecked(words) ==
    IF words = <<>> THEN 0 ELSE WordCount(words[1])

\* max_word_len = len(restricted_words[0].split()); restricted_words[0]
\* raises IndexError on an empty list, which is -1 here
first_word_len(words) ==
    IF words = <<>> THEN -1 ELSE WordCount(words[1])

\* one pass of the while loop, for window length n
WindowMatches(tokens, words, n, threshold, type) ==
    LET HasN(x) == WordCount(x) = n
        temp == SelectSeq(words, HasN)
    IN IF Len(temp) > 0
       THEN get_matches(get_ngrams(tokens, n), temp, threshold, type)
       ELSE <<>>

\* the whole while loop, from window length n down to 1
RECURSIVE CollectFrom(_, _, _, _, _)
CollectFrom(tokens, words, n, threshold, type) ==
    IF n <= 0 THEN <<>>
    ELSE WindowMatches(tokens, words, n, threshold, type)
         \o CollectFrom(tokens, words, n - 1, threshold, type)

RemoveAt(df, i) == SubSeq(df, 1, i - 1) \o SubSeq(df, i + 1, Len(df))

\* sort_values(by=['similarity'], ascending=False): the default sort kind is
\* quicksort, which is not stable, so rows of equal similarity come out in
\* any order
RECURSIVE sort_values(_)
sort_values(df) ==
    IF df = <<>> THEN { <<>> }
    ELSE LET top == {i \in 1..Len(df) :
                        \A j \in 1..Len(df) : ~Gt(df[j].similarity, df[i].similarity)}
         IN UNION { { <<df[i]>> \o rest : rest \in sort_values(RemoveAt(df, i)) } :
                    i \in top }

\* variant: ascending=True
sort_values_ascending(df) ==
    LET Reverse(s) == [i \in 1..Len(s) |-> s[Len(s) + 1 - i]]
    IN { Reverse(s) : s \in sort_values(df) }

\* sort_values as fuzzy_search calls it
sort_by_similarity(df) == sort_values(df)

RECURSIVE Pick(_, _, _)
Pick(df, keep, i) ==
    IF i > Len(df) THEN <<>>
    ELSE (IF i \in keep THEN <<df[i]>> ELSE <<>>) \o Pick(df, keep, i + 1)

\* variant: no row is dropped
drop_nothing(df, key) == df

\* variant: keep='last'
drop_duplicates_last(df, key) ==
    LET keep == {i \in 1..Len(df) :
                    \A j \in (i + 1)..Len(df) : df[j][key] # df[i][key]}
        Kept(c) == c[2] \in keep
        tagged == SelectSeq([k \in 1..Len(df) |-> <<df[k], k>>], Kept)
    IN [i \in 1..Len(tagged) |-> tagged[i][1]]

\* drop_duplicates(subset=[key], keep='first').reset_index(drop=True)
drop_duplicates(df, key) ==
    Pick(df, {i \in 1..Len(df) : \A j \in 1..(i - 1) : df[j][key] # df[i][key]}, 1)

\* lines 193-197: the tables fuzzy_search can return for collected matches df
RankAndDedup(df) ==
    { drop_duplicates(drop_duplicates(s, "matched_word"), "restricted_word") :
      s \in sort_by_similarity(df) }

---------------------------------------------------------------------------
(* main: the highlighting                                                  *)

\* '<span style="background-color: #FFFF00">' and '</span>'
OpenTag == <<"<","s","p","a","n"," ","s","t","y","l","e","=","\"",
             "b","a","c","k","g","r","o","u","n","d","-","c","o","l","o","r",
             ":"," ","#","F","F","F","F","0","0","\"",">">>
CloseTag == <<"<","/","s","p","a","n",">">>

\* the class [\n| ] that replaces each escaped space of the pattern
GapClass == {"\n", "|", " "}

\* variant: every text shorter than 3 is skipped
TooShort(word) == Len(word) < 3

\* if (len(word) < 3 and (not word.isalnum() or word.isdigit())) or len(word) == 1
TooNoisy(word) ==
    (Len(word) < 3 /\ (~isalnum(word) \/ isdigit(word))) \/ Len(word) = 1

\* The pattern re.escape(word).replace('\\ ', '[\\n| ]*') is read off the
\* word: a space stands for [\n| ]* (greedy, giving back characters when the
\* rest fails), any other character for itself.  MatchFrom is the position
\* after the match of word[k..] that starts at position p of doc, 0 if none.
RECURSIVE MatchFrom(_, _, _, _)
RECURSIVE GapFrom(_, _, _, _, _)
MatchFrom(word, k, doc, p) ==
    IF k > Len(word) THEN p
    ELSE IF word[k] = " "
         THEN GapFrom(word, k, doc, p, RunEnd(doc, p, GapClass) + 1)
         ELSE IF p <= Len(doc) /\ doc[p] = word[k]
              THEN MatchFrom(word, k + 1, doc, p + 1)
              ELSE 0

GapFrom(word, k, doc, p, q) ==
    IF q < p THEN 0
    ELSE LET m == MatchFrom(word, k + 1, doc, q)
         IN IF m # 0 THEN m ELSE GapFrom(word, k, doc, p, q - 1)

\* the non-overlapping matches of the pattern in doc from position p on,
\* leftmost first, each as <<start, position after the end>>
RECURSIVE FindAllFrom(_, _, _)
FindAllFrom(word, doc, p) ==
    LET starts == {q \in p..Len(doc) : MatchFrom(word, 1, doc, q) # 0}
    IN IF starts = {} THEN <<>>
       ELSE LET q == CHOOSE x \in starts : \A y \in starts : x <= y
            IN <<<<q, MatchFrom(word, 1, doc, q)>>>>
               \o FindAllFrom(word, doc, MatchFrom(word, 1, doc, q))

FindAll(word, doc) == FindAllFrom(word, doc, 1)

Replacement(word) == OpenTag \o word \o CloseTag

ReplacementOrigin(word) ==
    [i \in 1..Len(OpenTag) |-> "markup"] \o [i \in 1..Len(word) |-> "wrapped"]
    \o [i \in 1..Len(CloseTag) |-> "markup"]

\* text with the spans replaced by repl, copying from position p on
RECURSIVE ReplaceSpans(_, _, _, _)
ReplaceSpans(text, spans, repl, p) ==
    IF spans = <<>> THEN SubSeq(text, p, Len(text))
    ELSE SubSeq(text, p, spans[1][1] - 1) \o repl
         \o ReplaceSpans(text, Tail(spans), repl, spans[1][2])

\* variant: re.subn with count=1
SubnFirstOnly(word, doc) ==
    LET all == FindAll(word, doc) IN IF all = <<>> THEN <<>> ELSE <<all[1]>>

\* re.subn(word_sub_re, f'<span ...>{word}</span>', updated_body_HTML) with
\* no count: every non-overlapping match is replaced
re_subn_spans(word, doc) == FindAll(word, doc)

---------------------------------------------------------------------------
(* Inputs                                                                  *)

MaxWords == 2

Half == <<1, 2>>
FourFifths == <<4, 5>>

w_pa == <<"p","a">>
w_pan == <<"p","a","n">>
w_pab == <<"p","a","b">>
w_pa1 == <<"p","a","1">>
w_12 == <<"1","2">>
w_7 == <<"7">>
w_adot == <<"a",".">>
w_pa_pan == <<"p","a"," ","p","a","n">>
w_12_7 == <<"1","2"," ","7">>
w_comma == <<",">>
w_of == <<"o","f">>
w_pa_comma_pan == <<"p","a",","," ","p","a","n">>

\* words of the e-mail body and what separates two of them
Vocabulary == {w_pa, w_pan, w_12, w_7, w_adot, w_comma, w_of}
Separators == { <<" ">>, <<"\n">> }

RECURSIVE BodiesOf(_)
BodiesOf(n) ==
    IF n = 1 THEN Vocabulary
    ELSE { b \o s \o w : b \in BodiesOf(n - 1), s \in Separators, w \in Vocabulary }

Bodies == UNION { BodiesOf(n) : n \in 1..MaxWords }

\* jsonInputIssuer.json and jsonInputTicker.json
IssuerConfigs ==
    { [restricted_words |-> <<w_pa, w_pa_pan>>, similarity_ratio |-> FourFifths],
      [restricted_words |-> <<w_pan, w_pab, w_12_7>>, similarity_ratio |-> Half],
      [restricted_words |-> <<>>, similarity_ratio |-> FourFifths],
      [restricted_words |-> <<w_pa_pan>>, similarity_ratio |-> <<3, 2>>],
      [restricted_words |-> <<w_pa_pan, w_adot, w_12>>, similarity_ratio |-> <<0, 1>>],
      [restricted_words |-> <<w_adot, w_pan>>, similarity_ratio |-> Half],
      [restricted_words |-> <<w_pa, w_pa_comma_pan>>, similarity_ratio |-> Half],
      [restricted_words |-> <<w_pa, w_pa1, w_12_7>>, similarity_ratio |-> <<3, 10>>] }

TickerConfigs ==
    { [restricted_words |-> <<w_pa>>, similarity_ratio |-> FourFifths],
      [restricted_words |-> <<>>, similarity_ratio |-> FourFifths],
      [restricted_words |-> <<w_12, w_7>>, similarity_ratio |-> Half],
      [restricted_words |-> <<w_pan>>, similarity_ratio |-> <<1, 1>>] }

---------------------------------------------------------------------------
(* The run of main                                                         *)

Init ==
    /\ body_HTML \in Bodies
    /\ updated_body_HTML = body_HTML
    /\ origin = [i \in 1..Len(body_HTML) |-> "body"]
    /\ json_data_issuer \in IssuerConfigs
    /\ json_data_ticker \in TickerConfigs
    /\ char_list = get_list_of_chars(json_data_ticker, json_data_issuer)
    /\ cleaned_content = <<>>
    /\ pc = "main"
    /\ restricted_type = "issuer"
    /\ content_list = <<>>
    /\ restricted_words = <<>>
    /\ similarity = <<0, 1>>
    /\ max_word_len = 0
    /\ matches_df = <<>>
    /\ matches_df_issuer = <<>>
    /\ matches_df_ticker = <<>>
    /\ matches_table = <<>>
    /\ idx = 1
    /\ result_table = <<>>
    /\ subs_made = 0

\* lines 236-241: the body is copied and cleaned
CleanBody ==
    /\ pc = "main"
    /\ cleaned_content' = clean_input(body_string_content(body_HTML), char_list)
    /\ pc' = "call"
    /\ UNCHANGED <<body_HTML, updated_body_HTML, origin, json_data_issuer,
                   json_data_ticker, char_list, restricted_type, content_list,
                   restricted_words, similarity, max_word_len, matches_df,
                   matches_df_issuer, matches_df_ticker, matches_table, idx,
                   result_table, subs_made>>

\* lines 244-245 and 162-173: fuzzy_search is entered for the current list
SearchStart ==
    /\ pc = "call"
    /\ LET data == IF restricted_type = "issuer" THEN json_data_issuer
                   ELSE json_data_ticker
           sorted == SortByWordCount(data.restricted_words)
       IN /\ content_list' = split(cleaned_content)
          /\ restricted_words' = sorted
          /\ similarity' = data.similarity_ratio
          /\ IF first_word_len(sorted) < 0
             THEN /\ pc' = "error"
                  /\ UNCHANGED <<max_word_len, matches_df>>
             ELSE /\ pc' = "collect"
                  /\ max_word_len' = first_word_len(sorted)
                  /\ matches_df' = <<>>
    /\ UNCHANGED <<body_HTML, updated_body_HTML, origin, json_data_issuer,
                   json_data_ticker, char_list, cleaned_content,
                   restricted_type, matches_df_issuer, matches_df_ticker,
                   matches_table, idx, result_table, subs_made>>

\* lines 175-190: one pass of the while loop
SearchWindow ==
    /\ pc = "collect"
    /\ max_word_len > 0
    /\ matches_df' = matches_df \o WindowMatches(content_list, restricted_words,
                                                 max_word_len, similarity,
                                                 restricted_type)
    /\ max_word_len' = max_word_len - 1
    /\ UNCHANGED <<body_HTML, updated_body_HTML, origin, json_data_issuer,
                   json_data_ticker, char_list, cleaned_content, pc,
                   restricted_type, content_list, restricted_words, similarity,
                   matches_df_issuer, matches_df_ticker, matches_table, idx,
                   result_table, subs_made>>

\* lines 192-205 and 244-246: the matches are sorted and deduplicated and
\* fuzzy_search returns; after the ticker search main concatenates the tables
SearchReturn ==
    /\ pc = "collect"
    /\ max_word_len <= 0
    /\ \E ranked \in RankAndDedup(matches_df) :
          /\ matches_df' = ranked
          /\ IF restricted_type = "issuer"
             THEN /\ matches_df_issuer' = ranked
                  /\ restricted_type' = "ticker"
                  /\ pc' = "call"
                  /\ UNCHANGED <<matches_df_ticker, matches_table>>
             ELSE /\ matches_df_ticker' = ranked
                  /\ matches_table' = matches_df_issuer \o ranked
                  /\ pc' = "highlight"
                  /\ UNCHANGED <<matches_df_issuer, restricted_type>>
    /\ UNCHANGED <<body_HTML, updated_body_HTML, origin, json_data_issuer,
                   json_data_ticker, char_list, cleaned_content, content_list,
                   restricted_words, similarity, max_word_len, idx,
                   result_table, subs_made>>

HeaderRow(kind) ==
    [kind |-> kind, matched_word |-> <<>>, restricted_word |-> <<>>,
     similarity |-> <<0, 1>>]

ReportRow(kind, row) ==
    [kind |-> kind, matched_word |-> row.matched_word,
     restricted_word |-> row.restricted_word, similarity |-> row.similarity]

\* lines 251-254: the section header put before row i (counted from 1)
HeaderBefore(i) ==
    IF i = 1 /\ Len(matches_df_issuer) > 0 THEN <<HeaderRow("issuer_header")>>
    ELSE IF i = Len(matches_df_issuer) + 1 /\ Len(matches_df_ticker) > 0
         THEN <<HeaderRow("ticker_header")>>
         ELSE <<>>

\* lines 249-274: one pass of the for loop
HighlightRow ==
    /\ pc = "highlight"
    /\ idx <= Len(matches_table)
    /\ LET row == matches_table[idx]
           word == row.matched_word
           spans == re_subn_spans(word, updated_body_HTML)
       IN IF TooNoisy(word)
          THEN /\ result_table' = result_table \o HeaderBefore(idx)
                                  \o <<ReportRow("red", row)>>
               /\ UNCHANGED <<updated_body_HTML, origin, subs_made>>
          ELSE /\ updated_body_HTML' =
                      ReplaceSpans(updated_body_HTML, spans, Replacement(word), 1)
               /\ origin' = ReplaceSpans(origin, spans, ReplacementOrigin(word), 1)
               /\ subs_made' = Len(spans)
               /\ result_table' = result_table \o HeaderBefore(idx)
                     \o <<ReportRow(IF Len(spans) = 0 THEN "red" ELSE "plain", row)>>
    /\ idx' = idx + 1
    /\ UNCHANGED <<body_HTML, json_data_issuer, json_data_ticker, char_list,
                   cleaned_content, pc, restricted_type, content_list,
                   restricted_words, similarity, max_word_len, matches_df,
                   matches_df_issuer, matches_df_ticker, matches_table>>

\* lines 276-281: the output document is built and returned
BuildOutput ==
    /\ pc = "highlight"
    /\ idx > Len(matches_table)
    /\ pc' = "done"
    /\ UNCHANGED <<body_HTML, updated_body_HTML, origin, json_data_issuer,
                   json_data_ticker, char_list, cleaned_content,
                   restricted_type, content_list, restricted_words, similarity,
                   max_word_len, matches_df, matches_df_issuer,
                   matches_df_ticker, matches_table, idx, result_table,
                   subs_made>>

Next ==
    \/ CleanBody
    \/ SearchStart
    \/ SearchWindow
    \/ SearchReturn
    \/ HighlightRow
    \/ BuildOutput

Spec == Init /\ [][Next]_vars

---------------------------------------------------------------------------
(* Properties                                                              *)

NoDuplicate(df, key) ==
    \A i, j \in 1..Len(df) : i # j => df[i][key] # df[j][key]

\* what the while loop of fuzzy_search collected for the issuer list; the
\* locals of that call are still in place until the ticker search starts
IssuerCollected ==
    CollectFrom(content_list, restricted_words, first_word_len(restricted_words),
                similarity, "issuer")

IssuerReturned == pc = "call" /\ restricted_type = "ticker"

\* C1: a table returned by fuzzy_search has no two rows with the same
\* matched_word and no two rows with the same restricted_word.
C1_NoDuplicateKeys ==
    /\ NoDuplicate(matches_df_issuer, "matched_word")
    /\ NoDuplicate(matches_df_issuer, "restricted_word")
    /\ NoDuplicate(matches_df_ticker, "matched_word")
    /\ NoDuplicate(matches_df_ticker, "restricted_word")

\* the dedup passes dropped rows and kept at least two
C1_Witness ==
    /\ IssuerReturned
    /\ Len(matches_df_issuer) >= 2
    /\ Len(matches_df_issuer) < Len(IssuerCollected)

AllAbove(df, threshold) ==
    \A i \in 1..Len(df) : Gt(df[i].similarity, threshold)

RECURSIVE HighlightSubs(_, _, _)
HighlightSubs(doc, table, i) ==
    IF i > Len(table) THEN 0
    ELSE LET word == table[i].matched_word
             spans == re_subn_spans(word, doc)
         IN IF TooNoisy(word) THEN HighlightSubs(doc, table, i + 1)
            ELSE Len(spans)
                 + HighlightSubs(ReplaceSpans(doc, spans, Replacement(word), 1),
                                 table, i + 1)

\* C3: running the highlighting loop a second time, on the document it
\* produced and with the same table, makes no substitution.
C3_Idempotent ==
    pc = "done" => HighlightSubs(updated_body_HTML, matches_table, 1) = 0

HigherThresholds == { <<3, 5>>, <<7, 10>>, <<9, 10>> }

RowSubstituted ==
    /\ pc \in {"highlight", "done"}
    /\ idx > 1
    /\ ~TooNoisy(matches_table[idx - 1].matched_word)

\* C5 as claimed: a row makes at most one substitution.
C5_SingleSubstitution == RowSubstituted => subs_made <= 1

\* C5 as amended: a row that is put to re.subn has every occurrence of its
\* pattern wrapped, as many as subs_made counts: afterwards no match of the
\* pattern is left that lies wholly in the body's own text.
C5_EveryOccurrence ==
    RowSubstituted =>
        LET word == matches_table[idx - 1].matched_word
        IN \A p \in 1..Len(updated_body_HTML) :
              LET m == MatchFrom(word, 1, updated_body_HTML, p)
              IN m # 0 => \E k \in p..(m - 1) : origin[k] # "body"

\* one row wrapped several occurrences
C5_Witness == RowSubstituted /\ subs_made >= 2

\* C6: the substitution of a row never matches text inside a highlight
\* marker inserted for an earlier row, neither its markup nor the text it
\* wraps.
C6_NoMatchInsideMarker ==
    (pc = "highlight" /\ idx <= Len(matches_table)
        /\ ~TooNoisy(matches_table[idx].matched_word)) =>
        LET spans == re_subn_spans(matches_table[idx].matched_word,
                                   updated_body_HTML)
        IN \A n \in 1..Len(spans) :
              \A k \in spans[n][1]..(spans[n][2] - 1) : origin[k] = "body"

InOpenUnit(t) == Gt(t, <<0, 1>>) /\ Gt(<<1, 1>>, t)

EmptyList ==
    \/ json_data_issuer.restricted_words = <<>>
    \/ json_data_ticker.restricted_words = <<>>

BadThreshold ==
    \/ ~InOpenUnit(json_data_issuer.similarity_ratio)
    \/ ~InOpenUnit(json_data_ticker.similarity_ratio)

NoOutput ==
    /\ pc \notin {"highlight", "done"}
    /\ matches_table = <<>>
    /\ result_table = <<>>
    /\ updated_body_HTML = body_HTML

\* C7 as claimed: with an empty list or a threshold outside (0,1) the run
\* never gets to a match table or a highlighted document.
C7_MalformedFailsFast == (EmptyList \/ BadThreshold) => NoOutput

\* C7 as amended: with an empty list the run stops in an error before any
\* table or highlight; a threshold outside (0,1) is not an error, the run
\* fails only for an empty list.
C7_EmptyListFails ==
    /\ EmptyList => NoOutput
    /\ pc = "error" => (EmptyList /\ restricted_words = <<>>)

\* the issuer search had matches and the run failed on the empty ticker list
C7_Witness ==
    /\ pc = "error"
    /\ restricted_type = "ticker"
    /\ Len(matches_df_issuer) > 0

\* the document without the characters of the inserted tags
WithoutMarkup(doc, org) ==
    LET kept == {i \in 1..Len(doc) : org[i] # "markup"}
        Kept(c) == c[2] \in kept
    IN [i \in 1..Cardinality(kept) |->
           SelectSeq([k \in 1..Len(doc) |-> <<doc[k], k>>], Kept)[i][1]]

\* C8: the highlighted body without the inserted opening and closing
\* markers is the original body.  Stated for the tables of one row, where
\* the substitution finds no earlier marker in the document: the claim
\* fails there already.
C8_OnlyMarkersInserted ==
    (pc = "done" /\ Len(matches_table) = 1) =>
        WithoutMarkup(updated_body_HTML, origin) = body_HTML

\* the rule of C9, in the claim's words
ClaimedSkip(word) ==
    \/ Len(word) = 1
    \/ Len(word) < 3 /\ (~isalnum(word) \/ isdigit(word))

\* C9: a row whose matched text has length 1, or length below 3 and is not
\* alphanumeric or is all digits, leaves the document as it is and is
\* reported as not highlighted; any other row is put to the substitution,
\* which wraps its text when the document holds it.
C9_ShortMatchesSkipped ==
    [][ (pc = "highlight" /\ idx <= Len(matches_table) /\ idx' = idx + 1) =>
          LET row == matches_table[idx]
              word == row.matched_word
              found == Len(FindAll(word, updated_body_HTML))
              last == result_table'[Len(result_table')]
          IN /\ Len(result_table') > Len(result_table)
             /\ last.matched_word = word
             /\ last.restricted_word = row.restricted_word
             /\ IF ClaimedSkip(word)
                THEN /\ updated_body_HTML' = updated_body_HTML
                     /\ last.kind = "red"
                ELSE /\ subs_made' = found
                     /\ found > 0 => /\ updated_body_HTML' # updated_body_HTML
                                     /\ last.kind = "plain"
                     /\ found = 0 => /\ updated_body_HTML' = updated_body_HTML
                                     /\ last.kind = "red"
       ]_vars

\* a two-character row was skipped although the document holds its text,
\* and a two-character row with a letter was highlighted
C9_Witness ==
    /\ \E i \in 1..Len(result_table) :
          /\ result_table[i].kind = "red"
          /\ Len(result_table[i].matched_word) = 2
          /\ FindAll(result_table[i].matched_word, body_HTML) # <<>>
    /\ \E i \in 1..Len(result_table) :
          /\ result_table[i].kind = "plain"
          /\ Len(result_table[i].matched_word) = 2

\* the tokens of a are consecutive tokens of b
TokensInside(a, b) ==
    LET ta == split(a)
        tb == split(b)
    IN \E k \in 0..(Len(tb) - Len(ta)) :
          \A i \in 1..Len(ta) : tb[k + i] = ta[i]

\* two rows for overlapping text: phrases of different word counts, the
\* n-gram of the shorter inside the n-gram of the longer
Overlapping(x, y) ==
    /\ WordCount(x.restricted_word) > WordCount(y.restricted_word)
    /\ TokensInside(y.matched_word, x.matched_word)

LongestFirst(df) ==
    \A i, j \in 1..Len(df) :
        i < j => WordCount(df[i].restricted_word) >= WordCount(df[j].restricted_word)

\* C10 as claimed: the longer window is scored first, and of two matches
\* for overlapping text only one remains in the returned table.
C10_OneSurvivor ==
    /\ pc = "collect" => LongestFirst(matches_df)
    /\ \A i, j \in 1..Len(matches_df_issuer) :
          ~Overlapping(matches_df_issuer[i], matches_df_issuer[j])

\* C10 as amended: the longer window is scored first; a returned table has
\* at most one row for a matched text, and that row has the highest
\* similarity of all matches collected for that matched text.  (Rows for
\* overlapping text with different matched texts can both remain.)
C10_BestPerMatchedText ==
    /\ pc = "collect" => LongestFirst(matches_df)
    /\ IssuerReturned =>
          LET collected == IssuerCollected
          IN /\ NoDuplicate(matches_df_issuer, "matched_word")
             /\ \A i \in 1..Len(matches_df_issuer) :
                   \A k \in 1..Len(collected) :
                      collected[k].matched_word = matches_df_issuer[i].matched_word
                      => ~Gt(collected[k].similarity,
                             matches_df_issuer[i].similarity)

\* windows of two lengths gave the same matched text with different
\* similarities, and a row for it was returned
C10_Witness ==
    /\ IssuerReturned
    /\ \E i \in 1..Len(matches_df_issuer) :
          \E k, m \in 1..Len(IssuerCollected) :
             /\ IssuerCollected[k].matched_word = matches_df_issuer[i].matched_word
             /\ IssuerCollected[m].matched_word = matches_df_issuer[i].matched_word
             /\ WordCount(IssuerCollected[k].restricted_word)
                  > WordCount(IssuerCollected[m].restricted_word)
             /\ Gt(IssuerCollected[m].similarity, IssuerCollected[k].similarity)

TextTakenByOther(y, collected) ==
    \E n \in 1..Len(collected) :
        /\ collected[n].matched_word = y.matched_word
        /\ collected[n].restricted_word # y.restricted_word
        /\ ~Gt(y.similarity, collected[n].similarity)

===========================================================================
